---- MODULE Spec2Model ----
(***************************************************************************)
(* A model of hardhat.config.ts: the Hardhat tasks node, panic, unpause,   *)
(* harvest, transfer and generate_accounts, and the loading of the         *)
(* deployer account into the configuration.                                *)
(*                                                                         *)
(* Every await / synchronous library call of a task action is one step of  *)
(* the task's process.  A call that can throw is a step that chooses its   *)
(* outcome with \E; where the thrown value goes (a catch clause, or out of *)
(* the action) follows the try blocks of the source.                       *)
(***************************************************************************)
EXTENDS Naturals, Sequences, FiniteSets, TLC

\* The state of the generate_accounts invocations and their file system.
VARIABLES
    dirExists,   \* whether the directory .config exists
    files,       \* PkFiles -> the file at that path
    nextKey,     \* the number of keys Wallet.createRandom has drawn, plus one
    gpc,         \* Runs -> where the invocation is
    block,       \* Runs -> the path of the try block the invocation is in
    file,        \* Runs -> the local `file`
    account,     \* Runs -> the local `account`
    gerr,        \* Runs -> the exception `e` on its way to the catch clause
    fds,         \* Runs -> the process's open descriptors, [fd, path]
    opened,      \* Runs -> the outcome of openSync per path ("" before the call)
    closed,      \* Runs -> the descriptors closeSync was called on, in order
    created,     \* PkFiles -> the invocations whose openSync created the file
    wrote,       \* PkFiles -> the invocations that wrote data to the file
    gout         \* Runs -> what the invocation printed, in order

genVars == <<dirExists, files, nextKey, gpc, block, file, account, gerr, fds,
             opened, closed, created, wrote, gout>>

\* The state of the operator's session of panic, unpause, harvest and
\* transfer commands, and of the chain.
VARIABLES
    registry,     \* the names hre.deployments knows
    invocations,  \* how many commands have been invoked
    task,         \* the command running ("" before the first)
    taskArgs,     \* its arguments and network
    pc,           \* where its action is
    step,         \* transfer: the block it is in, "vault" or "strat"
    named,        \* transfer: {deployer, vaultOwner, stratOwner}
    signer,       \* transfer: the signer
    contract,     \* the resolved contract's address (strategy, vContract, sContract)
    tx,           \* the local `tx`
    url,          \* the local `url`
    err,          \* the caught `err`
    thrown,       \* the error the action's promise rejected with
    out,          \* what the command printed, in order
    sent,         \* the transactions the chain accepted, in order
    events        \* the command's calls and prints, in the order they happened

opsVars == <<registry, invocations, task, taskArgs, pc, step, named, signer,
             contract, tx, url, err, thrown, out, sent, events>>

\* The state of a node invocation.
VARIABLES
    nodeArgs,   \* the node task's taskArgs: fork, noReset, write
    env,        \* process.env['HARDHAT_DEPLOY_FORK']
    networks,   \* hre.config.networks
    npc,        \* where the node action is
    superArgs,  \* the arguments runSuper was called with
    nout,       \* what the action printed
    given       \* the invocation as it was given: nodeArgs, env and networks

nodeVars == <<nodeArgs, env, networks, npc, superArgs, nout, given>>

\* The state of the loading of the configuration module (lines 170-230).
VARIABLES
    envPk,            \* process.env.DEPLOYER_PK
    deployerAccount,  \* the module's `deployerAccount`
    lpc,              \* where the loading is
    lerr,             \* the exception `e` on its way to the catch clause
    reads,            \* the paths readFileSync was called on, in order
    accounts,         \* `accounts` of the networks configured with deployerAccount
    lout              \* what the loading printed

loadVars == <<envPk, deployerAccount, lpc, lerr, reads, accounts, lout>>

vars == <<genVars, opsVars, nodeVars, loadVars>>

(***************************************************************************)
(* generate_accounts (lines 117-168)                                       *)
(***************************************************************************)

\* How many generate_accounts invocations there are.  They share the file
\* system and interleave freely, so sequential runs are among the behaviours.
NumRuns == 2

Runs == 1 .. NumRuns

DEPLOYER_PK_FILE == ".config/DEPLOYER_PK"
OTHER_PK_FILE == ".config/OTHER_PK"

PkFiles == {DEPLOYER_PK_FILE, OTHER_PK_FILE}

\* JavaScript's undefined and null, as the `kind` of a value.
undefined == "undefined"
null == "null"

\* The values of the local `file`: undefined, null or a descriptor.
FileUndefined == [kind |-> undefined, fd |-> 0]
FileNull == [kind |-> null, fd |-> 0]
Fd(n) == [kind |-> "fd", fd |-> n]

\* A finally clause without the `if (file)` guard.
Truthy_Always(v) == TRUE

\* JavaScript truthiness of a value of `file`: a number other than 0.
Truthy(v) == v.kind = "fd" /\ v.fd # 0

\* Descriptors 0, 1 and 2 are the process's stdin, stdout and stderr.
FirstFd == 3

\* A path that does not exist, and a file as created by open(O_CREAT).
NoFile == [exists |-> FALSE, data |-> <<>>]
EmptyFile == [exists |-> TRUE, data |-> <<>>]

\* A key put in place by the operator before any run ("Create
\* .config/DEPLOYER_PK or run `hardhat generate_accounts`", line 179).
OperatorFile == [exists |-> TRUE, data |-> <<"operator-key">>]


\* hre.ethers.Wallet.createRandom(): the n-th key drawn and its address.
\* Distinct draws give distinct keys, and the address is derived from the key.
PrivateKey(n) == "0xkey" \o ToString(n)
AddressOf(n) == "0xaddr" \o ToString(n)
\* A generator that returns the same account at every call.
Wallet_Fixed(n) == [privateKey |-> PrivateKey(1), address |-> AddressOf(1)]

Wallet(n) == [privateKey |-> PrivateKey(n), address |-> AddressOf(n)]
NoAccount == [privateKey |-> undefined, address |-> undefined]

\* A thrown value: a Node system error has a code, another Error has none.
SystemError(code) == [code |-> code, message |-> code \o ": " \o "syscall failed"]
PlainError(message) == [code |-> undefined, message |-> message]
NoError == [code |-> undefined, message |-> undefined]

\* console.log / console.error calls.
Log(text) == [stream |-> "log", text |-> text]
ConsoleError(e) == [stream |-> "error", text |-> e.message]

AccountLabel(path) ==
    IF path = DEPLOYER_PK_FILE THEN "Deployer account: " ELSE "Other account  : "
ExistsMessage(path) ==
    IF path = DEPLOYER_PK_FILE THEN "Deployer key exists. Not overwriting"
    ELSE "Other key exists. Not overwriting"

\* openSync with flag 'w+' in place of 'wx+': an existing file is opened and
\* truncated instead of the call failing with EEXIST.
OpenOutcomes_NotExclusive(path) ==
    {"EACCES"} \cup (IF ~dirExists THEN {"ENOENT"} ELSE {"created"})

\* What openSync(path, 'wx+', 0o600) can do in the current file system:
\* O_CREAT | O_EXCL fails with EEXIST when the path exists, with ENOENT when
\* the directory does not; any call can fail for another reason (EACCES,
\* EMFILE, ...), written EACCES.
OpenOutcomes(path) ==
    {"EACCES"} \cup
        (IF ~dirExists THEN {"ENOENT"}
         ELSE IF files[path].exists THEN {"EEXIST"}
         ELSE {"created"})

\* The lowest descriptor the process has free.
LowestFreeFd(p) ==
    LET used == {h.fd : h \in fds[p]}
    IN  CHOOSE fd \in FirstFd .. (FirstFd + Cardinality(used)) :
            /\ fd \notin used
            /\ \A g \in FirstFd .. fd : g = fd \/ g \in used

\* A write by path in place of the descriptor, with the first block's path
\* left in the second block.
PathOf_DeployerPath(p, fd) == DEPLOYER_PK_FILE

\* The path a descriptor of the process refers to.
PathOf(p, fd) == (CHOOSE h \in fds[p] : h.fd = fd).path

GenInit ==
    /\ files \in [PkFiles -> {NoFile, OperatorFile}]
    /\ dirExists \in BOOLEAN
    /\ (\E f \in PkFiles : files[f].exists) => dirExists
    /\ nextKey = 1
    /\ gpc = [p \in Runs |-> "mkdir"]
    /\ block = [p \in Runs |-> DEPLOYER_PK_FILE]
    /\ file = [p \in Runs |-> FileUndefined]
    /\ account = [p \in Runs |-> NoAccount]
    /\ gerr = [p \in Runs |-> NoError]
    /\ fds = [p \in Runs |-> {}]
    /\ opened = [p \in Runs |-> [f \in PkFiles |-> ""]]
    /\ closed = [p \in Runs |-> <<>>]
    /\ created = [f \in PkFiles |-> {}]
    /\ wrote = [f \in PkFiles |-> {}]
    /\ gout = [p \in Runs |-> <<>>]

\* Line 122-125: fs.mkdirSync(".config") in a try whose catch is empty: the
\* directory is made, or the call throws (EEXIST when it is there, another
\* error otherwise) and the exception is dropped.
MkdirSync(p) ==
    /\ gpc[p] = "mkdir"
    /\ \E made \in (IF dirExists THEN {FALSE} ELSE BOOLEAN) :
           dirExists' = (dirExists \/ made)
    /\ gpc' = [gpc EXCEPT ![p] = "open"]
    /\ UNCHANGED <<files, nextKey, block, file, account, gerr, fds, opened,
                   closed, created, wrote, gout>>
    /\ UNCHANGED <<opsVars, nodeVars, loadVars>>

\* Lines 128 and 149: file = fs.openSync(<path>, 'wx+', 0o600).  The create is
\* exclusive and atomic; a failure throws into the block's catch clause and
\* leaves `file` as it was.
OpenSync(p) ==
    /\ gpc[p] = "open"
    /\ \E res \in OpenOutcomes(block[p]) :
           /\ opened' = [opened EXCEPT ![p][block[p]] = res]
           /\ IF res = "created"
              THEN /\ files' = [files EXCEPT ![block[p]] = EmptyFile]
                   /\ created' = [created EXCEPT ![block[p]] = @ \cup {p}]
                   /\ fds' = [fds EXCEPT ![p] =
                                 @ \cup {[fd |-> LowestFreeFd(p), path |-> block[p]]}]
                   /\ file' = [file EXCEPT ![p] = Fd(LowestFreeFd(p))]
                   /\ gpc' = [gpc EXCEPT ![p] = "createRandom"]
                   /\ UNCHANGED gerr
              ELSE /\ gerr' = [gerr EXCEPT ![p] = SystemError(res)]
                   /\ gpc' = [gpc EXCEPT ![p] = "catch"]
                   /\ UNCHANGED <<files, created, fds, file>>
    /\ UNCHANGED <<dirExists, nextKey, block, account, closed, wrote, gout>>
    /\ UNCHANGED <<opsVars, nodeVars, loadVars>>

\* Lines 129 and 150: account = hre.ethers.Wallet.createRandom(), which
\* throws when the platform gives no randomness.
CreateRandom(p) ==
    /\ gpc[p] = "createRandom"
    /\ \E ok \in BOOLEAN :
           IF ok
           THEN /\ account' = [account EXCEPT ![p] = Wallet(nextKey)]
                /\ nextKey' = nextKey + 1
                /\ gpc' = [gpc EXCEPT ![p] = "write"]
                /\ UNCHANGED gerr
           ELSE /\ gerr' = [gerr EXCEPT ![p] = PlainError("no randomness")]
                /\ gpc' = [gpc EXCEPT ![p] = "catch"]
                /\ UNCHANGED <<account, nextKey>>
    /\ UNCHANGED <<dirExists, files, block, file, fds, opened, closed, created,
                   wrote, gout>>
    /\ UNCHANGED <<opsVars, nodeVars, loadVars>>

\* Lines 130 and 151: fs.writeFileSync(file, account.privateKey) writes to
\* the file the descriptor refers to, or throws (ENOSPC, EIO, ...) with
\* nothing written.
WriteFileSync(p) ==
    /\ gpc[p] = "write"
    /\ \E ok \in BOOLEAN :
           IF ok
           THEN LET path == PathOf(p, file[p].fd)
                IN  /\ files' = [files EXCEPT
                                    ![path] = [exists |-> TRUE,
                                               data |-> <<account[p].privateKey>>]]
                    /\ wrote' = [wrote EXCEPT ![path] = @ \cup {p}]
                    /\ gpc' = [gpc EXCEPT ![p] = "log"]
                    /\ UNCHANGED gerr
           ELSE /\ gerr' = [gerr EXCEPT ![p] = SystemError("ENOSPC")]
                /\ gpc' = [gpc EXCEPT ![p] = "catch"]
                /\ UNCHANGED <<files, wrote>>
    /\ UNCHANGED <<dirExists, nextKey, block, file, account, fds, opened,
                   closed, created, gout>>
    /\ UNCHANGED <<opsVars, nodeVars, loadVars>>

\* Lines 131 and 152: console.log(`Deployer account: ${account.address}`).
LogAccount(p) ==
    /\ gpc[p] = "log"
    /\ gout' = [gout EXCEPT ![p] =
                   Append(@, Log(AccountLabel(block[p]) \o account[p].address))]
    /\ gpc' = [gpc EXCEPT ![p] = "finally"]
    /\ UNCHANGED <<dirExists, files, nextKey, block, file, account, gerr, fds,
                   opened, closed, created, wrote>>
    /\ UNCHANGED <<opsVars, nodeVars, loadVars>>

\* A catch clause that handles EEXIST alone: another error leaves the action.
Catch_OnlyExists(p) ==
    /\ gpc[p] = "catch"
    /\ IF gerr[p].code = "EEXIST"
       THEN /\ gout' = [gout EXCEPT ![p] = Append(@, Log(ExistsMessage(block[p])))]
            /\ gerr' = [gerr EXCEPT ![p] = NoError]
            /\ gpc' = [gpc EXCEPT ![p] = "finally"]
       ELSE /\ gpc' = [gpc EXCEPT ![p] = "rejected"]
            /\ UNCHANGED <<gout, gerr>>
    /\ UNCHANGED <<dirExists, files, nextKey, block, file, account, fds,
                   opened, closed, created, wrote>>
    /\ UNCHANGED <<opsVars, nodeVars, loadVars>>

\* Lines 133-140 and 154-161: the catch clause.
Catch(p) ==
    /\ gpc[p] = "catch"
    /\ gout' = [gout EXCEPT ![p] =
                   Append(@, IF gerr[p].code = "EEXIST"
                             THEN Log(ExistsMessage(block[p]))
                             ELSE ConsoleError(gerr[p]))]
    /\ gerr' = [gerr EXCEPT ![p] = NoError]
    /\ gpc' = [gpc EXCEPT ![p] = "finally"]
    /\ UNCHANGED <<dirExists, files, nextKey, block, file, account, fds,
                   opened, closed, created, wrote>>
    /\ UNCHANGED <<opsVars, nodeVars, loadVars>>

\* Lines 141-146 and 162-167: the finally clause, then the next statement: the
\* second try block after the first, the end of the action after the second.
\* closeSync is called on a descriptor the same block has just opened, and is
\* taken to succeed.
Finally(p) ==
    /\ gpc[p] = "finally"
    /\ IF Truthy(file[p])
       THEN /\ fds' = [fds EXCEPT ![p] = {h \in @ : h.fd # file[p].fd}]
            /\ closed' = [closed EXCEPT ![p] = Append(@, file[p].fd)]
            /\ file' = [file EXCEPT ![p] = FileNull]
       ELSE UNCHANGED <<fds, closed, file>>
    /\ IF block[p] = DEPLOYER_PK_FILE
       THEN /\ block' = [block EXCEPT ![p] = OTHER_PK_FILE]
            /\ gpc' = [gpc EXCEPT ![p] = "open"]
       ELSE /\ gpc' = [gpc EXCEPT ![p] = "done"]
            /\ UNCHANGED block
    /\ UNCHANGED <<dirExists, files, nextKey, account, gerr, opened, created,
                   wrote, gout>>
    /\ UNCHANGED <<opsVars, nodeVars, loadVars>>

\* One step of one generate_accounts invocation.
GenStep(p) ==
    \/ MkdirSync(p)
    \/ OpenSync(p)
    \/ CreateRandom(p)
    \/ WriteFileSync(p)
    \/ LogAccount(p)
    \/ Catch(p)
    \/ Finally(p)

GenNext == \E p \in Runs : GenStep(p)

(***************************************************************************)
(* panic, unpause, harvest (lines 39-82) and transfer (lines 84-115)       *)
(*                                                                         *)
(* The operator invokes one command at a time; the chain outlives the      *)
(* commands.                                                               *)
(***************************************************************************)

\* How many commands the operator invokes in a session.
MaxInvocations == 2

StrategyTasks == {"panic", "unpause", "harvest"}
Tasks == StrategyTasks \cup {"transfer"}

\* taskArgs.strat, the positional `vault`, and hre.network.name.
Strats == {"0xstratA", "0xstratB"}
VaultNames == {"foo", "bar"}
ActiveNetworks == {"hardhat", "bsc"}

\* The deployments hardhat-deploy may know by name.
DeploymentNames == {"foo-vault", "foo-strat", "bar-vault"}
DeploymentAddress(name) == "0x" \o name

\* namedAccounts (lines 231-262): account 0 by default, the address book's
\* entry on a network that has one.
Account0 == "0xaccount0"
NamedAccounts(network) ==
    [deployer |-> Account0,
     vaultOwner |-> IF network = "bsc"
                    THEN "addressBook.bsc.platforms.beefyfinance.vaultOwner"
                    ELSE Account0,
     stratOwner |-> IF network = "bsc"
                    THEN "addressBook.bsc.platforms.beefyfinance.strategyOwner"
                    ELSE Account0]
NoNamedAccounts ==
    [deployer |-> undefined, vaultOwner |-> undefined, stratOwner |-> undefined]

NoArgs == [strat |-> undefined, vault |-> undefined, network |-> undefined]
NoTx == [hash |-> undefined]

\* The hash the chain gives the n-th transaction it accepts.
TxHash(n) == "0xtx" \o ToString(n)

\* `${err}` of an Error.
ErrString(e) == "Error: " \o e.message

\* What a rejected submission and a failed confirmation wait throw.
SubmitErrors == {PlainError("transaction rejected"), PlainError("insufficient funds")}
WaitErrors == {PlainError("transaction failed (reverted)")}

\* Per task: the strategy method called and the two messages (lines 45-50,
\* 60-65, 75-80).
Method(t) == t
SuccessMessage(t, u) ==
    (IF t = "panic" THEN "Successful panic with tx at "
     ELSE IF t = "unpause" THEN "Successful unpaused with tx at "
     ELSE "Successful harvest with tx at ") \o u
FailureMessage(t, e) ==
    (IF t = "panic" THEN "Couldn't panic due to "
     ELSE IF t = "unpause" THEN "Couldn't unpause due to "
     ELSE "Couldn't harvest due to ") \o ErrString(e)
ExplorerUrl(hash) == "https://bscscan.com/tx/" \o hash

\* process.stdout.write calls of transfer (lines 97, 99, 107, 109).
Write(text) == [stream |-> "stdout", text |-> text]
Announcement(name, address, owner) ==
    "Transfering ownership of \"" \o name \o "\" at \"" \o address
        \o "\" to \"" \o owner \o "\""
TxNote(hash) == " (tx: " \o hash \o ")\n"

Event(type, what) == [type |-> type, what |-> what]

OpsInit ==
    /\ registry \in SUBSET DeploymentNames
    /\ invocations = 0
    /\ task = ""
    /\ taskArgs = NoArgs
    /\ pc = "idle"
    /\ step = ""
    /\ named = NoNamedAccounts
    /\ signer = undefined
    /\ contract = undefined
    /\ tx = NoTx
    /\ url = undefined
    /\ err = NoError
    /\ thrown = NoError
    /\ out = <<>>
    /\ sent = <<>>
    /\ events = <<>>

\* The operator runs a command: a fresh process, so fresh locals and output.
Invoke ==
    /\ pc \in {"idle", "done", "rejected"}
    /\ invocations < MaxInvocations
    /\ invocations' = invocations + 1
    /\ \E t \in Tasks, n \in ActiveNetworks :
           /\ task' = t
           /\ IF t = "transfer"
              THEN /\ \E v \in VaultNames :
                          taskArgs' = [strat |-> undefined, vault |-> v, network |-> n]
                   /\ pc' = "getNamedAccounts"
              ELSE /\ \E a \in Strats :
                          taskArgs' = [strat |-> a, vault |-> undefined, network |-> n]
                   /\ pc' = "getContractAt"
    /\ step' = ""
    /\ named' = NoNamedAccounts
    /\ signer' = undefined
    /\ contract' = undefined
    /\ tx' = NoTx
    /\ url' = undefined
    /\ err' = NoError
    /\ thrown' = NoError
    /\ out' = <<>>
    /\ events' = <<>>
    /\ UNCHANGED <<registry, sent>>
    /\ UNCHANGED <<genVars, nodeVars, loadVars>>

\* The transaction a contract call submits, as the chain records it.
Transaction(to, method, arg, from) ==
    [hash |-> TxHash(Len(sent) + 1), to |-> to, method |-> method, arg |-> arg,
     from |-> from]

\* Lines 42, 57, 72: await hre.ethers.getContractAt("IStrategy", taskArgs.strat),
\* before the try block: a rejection rejects the action.
GetContractAt ==
    /\ pc = "getContractAt"
    /\ \E ok \in BOOLEAN :
           IF ok
           THEN /\ contract' = taskArgs.strat
                /\ events' = Append(events, Event("resolve", taskArgs.strat))
                /\ pc' = "call"
                /\ UNCHANGED thrown
           ELSE /\ thrown' = PlainError("artifact IStrategy not found")
                /\ pc' = "rejected"
                /\ UNCHANGED <<contract, events>>
    /\ UNCHANGED <<registry, invocations, task, taskArgs, step, named, signer,
                   tx, url, err, out, sent>>
    /\ UNCHANGED <<genVars, nodeVars, loadVars>>

\* Lines 45-46, 60-61, 75-76: tx = await strategy.<method>() inside the try,
\* then url from tx.hash.
CallStrategy ==
    /\ pc = "call"
    /\ \E e \in {NoError} \cup SubmitErrors :
           IF e = NoError
           THEN LET t == Transaction(contract, Method(task), undefined, Account0)
                IN  /\ sent' = Append(sent, t)
                    /\ tx' = [hash |-> t.hash]
                    /\ url' = ExplorerUrl(t.hash)
                    /\ events' = Append(events, Event("submit", t.hash))
                    /\ pc' = "wait"
                    /\ UNCHANGED err
           ELSE /\ err' = e
                /\ pc' = "catch"
                /\ UNCHANGED <<sent, tx, url, events>>
    /\ UNCHANGED <<registry, invocations, task, taskArgs, step, named, signer,
                   contract, thrown, out>>
    /\ UNCHANGED <<genVars, nodeVars, loadVars>>

\* tx.wait() without its await: the success message is printed whether or not
\* the confirmation fails.
TxWait_NotAwaited ==
    /\ pc = "wait"
    /\ \E e \in {NoError} \cup WaitErrors :
           /\ out' = Append(out, Log(SuccessMessage(task, url)))
           /\ events' = Append(events, Event("print", SuccessMessage(task, url)))
           /\ pc' = "done"
           /\ UNCHANGED err
    /\ UNCHANGED <<registry, invocations, task, taskArgs, step, named, signer,
                   contract, tx, url, thrown, sent>>
    /\ UNCHANGED <<genVars, nodeVars, loadVars>>

\* Lines 47-48, 62-63, 77-78: await tx.wait(), then the success message.
TxWait ==
    /\ pc = "wait"
    /\ \E e \in {NoError} \cup WaitErrors :
           IF e = NoError
           THEN /\ out' = Append(out, Log(SuccessMessage(task, url)))
                /\ events' = events \o <<Event("confirm", tx.hash),
                                         Event("print", SuccessMessage(task, url))>>
                /\ pc' = "done"
                /\ UNCHANGED err
           ELSE /\ err' = e
                /\ pc' = "catch"
                /\ UNCHANGED <<out, events>>
    /\ UNCHANGED <<registry, invocations, task, taskArgs, step, named, signer,
                   contract, tx, url, thrown, sent>>
    /\ UNCHANGED <<genVars, nodeVars, loadVars>>

\* A catch clause that rethrows instead of printing.
CatchErr_Rethrow ==
    /\ pc = "catch"
    /\ thrown' = err
    /\ pc' = "rejected"
    /\ UNCHANGED <<registry, invocations, task, taskArgs, step, named, signer,
                   contract, tx, url, err, out, events, sent>>
    /\ UNCHANGED <<genVars, nodeVars, loadVars>>

\* A catch clause that prints and calls the strategy again.
CatchErr_Retry ==
    /\ pc = "catch"
    /\ out' = Append(out, Log(FailureMessage(task, err)))
    /\ events' = Append(events, Event("print", FailureMessage(task, err)))
    /\ pc' = "call"
    /\ UNCHANGED <<registry, invocations, task, taskArgs, step, named, signer,
                   contract, tx, url, err, thrown, sent>>
    /\ UNCHANGED <<genVars, nodeVars, loadVars>>

\* Lines 49-51, 64-66, 79-81: the catch clause.
CatchErr ==
    /\ pc = "catch"
    /\ out' = Append(out, Log(FailureMessage(task, err)))
    /\ events' = Append(events, Event("print", FailureMessage(task, err)))
    /\ pc' = "done"
    /\ UNCHANGED <<registry, invocations, task, taskArgs, step, named, signer,
                   contract, tx, url, err, thrown, sent>>
    /\ UNCHANGED <<genVars, nodeVars, loadVars>>

\* Line 88: await hre.getNamedAccounts().  transfer has no try block: every
\* rejection below rejects the action.
GetNamedAccounts ==
    /\ pc = "getNamedAccounts"
    /\ \E ok \in BOOLEAN :
           IF ok
           THEN /\ named' = NamedAccounts(taskArgs.network)
                /\ pc' = "getSigner"
                /\ UNCHANGED thrown
           ELSE /\ thrown' = PlainError("could not get accounts")
                /\ pc' = "rejected"
                /\ UNCHANGED named
    /\ UNCHANGED <<registry, invocations, task, taskArgs, step, signer,
                   contract, tx, url, err, out, sent, events>>
    /\ UNCHANGED <<genVars, nodeVars, loadVars>>

\* Line 89: await hre.ethers.getSigner(deployer); the vault block is next.
GetSigner ==
    /\ pc = "getSigner"
    /\ \E ok \in BOOLEAN :
           IF ok
           THEN /\ signer' = named.deployer
                /\ step' = "vault"
                /\ pc' = "get"
                /\ UNCHANGED thrown
           ELSE /\ thrown' = PlainError("no signer")
                /\ pc' = "rejected"
                /\ UNCHANGED <<signer, step>>
    /\ UNCHANGED <<registry, invocations, task, taskArgs, named, contract, tx,
                   url, err, out, sent, events>>
    /\ UNCHANGED <<genVars, nodeVars, loadVars>>

\* Lines 94 and 104: `${vault}-vault` and `${vault}-strat`.
ContractName(vault, s) == vault \o "-" \o s

\* The two owners swapped between the blocks.
NewOwner_Swapped(s) == IF s = "vault" THEN named.stratOwner ELSE named.vaultOwner

\* Lines 98 and 108: the new owner of the block's contract.
NewOwner(s) == IF s = "vault" THEN named.vaultOwner ELSE named.stratOwner

\* Lines 94-97 and 104-107: await hre.deployments.get(name), which rejects
\* when no deployment has the name; then connect and the announcement.
DeploymentsGet ==
    /\ pc = "get"
    /\ LET name == ContractName(taskArgs.vault, step)
       IN  IF name \in registry
           THEN LET text == Announcement(name, DeploymentAddress(name),
                                         NewOwner(step))
                IN  /\ contract' = DeploymentAddress(name)
                    /\ out' = Append(out, Write(text))
                    /\ events' = events \o <<Event("get", name),
                                             Event("print", text)>>
                    /\ pc' = "transferOwnership"
                    /\ UNCHANGED thrown
           ELSE /\ thrown' = PlainError("No deployment found for: " \o name)
                /\ events' = Append(events, Event("get", name))
                /\ pc' = "rejected"
                /\ UNCHANGED <<contract, out>>
    /\ UNCHANGED <<registry, invocations, task, taskArgs, step, named, signer,
                   tx, url, err, sent>>
    /\ UNCHANGED <<genVars, nodeVars, loadVars>>

\* Lines 98-99 and 108-109: tx = await contract.transferOwnership(owner), then
\* the transaction's hash is written.
TransferOwnership ==
    /\ pc = "transferOwnership"
    /\ \E e \in {NoError} \cup SubmitErrors :
           IF e = NoError
           THEN LET t == Transaction(contract, "transferOwnership",
                                     NewOwner(step), signer)
                IN  /\ sent' = Append(sent, t)
                    /\ tx' = [hash |-> t.hash]
                    /\ out' = Append(out, Write(TxNote(t.hash)))
                    /\ events' = events \o <<Event("submit", t.hash),
                                             Event("print", TxNote(t.hash))>>
                    /\ pc' = "wait_transfer"
                    /\ UNCHANGED thrown
           ELSE /\ thrown' = e
                /\ pc' = "rejected"
                /\ UNCHANGED <<sent, tx, out, events>>
    /\ UNCHANGED <<registry, invocations, task, taskArgs, step, named, signer,
                   contract, url, err>>
    /\ UNCHANGED <<genVars, nodeVars, loadVars>>

\* tx.wait() of transfer without its await: the next statement runs whether
\* or not the transaction is confirmed.
TransferWait_NotAwaited ==
    /\ pc = "wait_transfer"
    /\ IF step = "vault"
       THEN /\ step' = "strat"
            /\ pc' = "get"
            /\ UNCHANGED <<out, events>>
       ELSE /\ out' = Append(out, Log("done"))
            /\ events' = Append(events, Event("print", "done"))
            /\ pc' = "done"
            /\ UNCHANGED step
    /\ UNCHANGED <<registry, invocations, task, taskArgs, named, signer,
                   contract, tx, url, err, thrown, sent>>
    /\ UNCHANGED <<genVars, nodeVars, loadVars>>

\* Lines 100-104 and 110-113: await tx.wait(); after the vault block the strat
\* block, after the strat block console.log("done").
TransferWait ==
    /\ pc = "wait_transfer"
    /\ \E e \in {NoError} \cup WaitErrors :
           IF e = NoError
           THEN /\ IF step = "vault"
                   THEN /\ step' = "strat"
                        /\ pc' = "get"
                        /\ events' = Append(events, Event("confirm", tx.hash))
                        /\ UNCHANGED out
                   ELSE /\ out' = Append(out, Log("done"))
                        /\ events' = events \o <<Event("confirm", tx.hash),
                                                 Event("print", "done")>>
                        /\ pc' = "done"
                        /\ UNCHANGED step
                /\ UNCHANGED thrown
           ELSE /\ thrown' = e
                /\ pc' = "rejected"
                /\ UNCHANGED <<step, out, events>>
    /\ UNCHANGED <<registry, invocations, task, taskArgs, named, signer,
                   contract, tx, url, err, sent>>
    /\ UNCHANGED <<genVars, nodeVars, loadVars>>

OpsNext ==
    \/ Invoke
    \/ GetContractAt
    \/ CallStrategy
    \/ TxWait
    \/ CatchErr
    \/ GetNamedAccounts
    \/ GetSigner
    \/ DeploymentsGet
    \/ TransferOwnership
    \/ TransferWait

(***************************************************************************)
(* node (lines 21-37) over config.networks (lines 189-230)                 *)
(***************************************************************************)

\* A chain identifier, or undefined where the network declares none.
ChainId(n) == [kind |-> "number", n |-> n]
NoChainId == [kind |-> undefined, n |-> 0]

\* Hardhat resolves the hardhat network's missing chainId to its default.
HardhatChainId == 31337

\* hre.config.networks as configured: each network's url and chainId.
Networks ==
    [hardhat   |-> [url |-> undefined, chainId |-> ChainId(HardhatChainId)],
     bsc       |-> [url |-> "https://bsc-dataseed.binance.org/",
                    chainId |-> ChainId(56)],
     heco      |-> [url |-> "https://http-mainnet.hecochain.com",
                    chainId |-> ChainId(128)],
     avax      |-> [url |-> "https://api.avax.network/ext/bc/C/rpc",
                    chainId |-> ChainId(43114)],
     polygon   |-> [url |-> "https://speedy-nodes-nyc.moralis.io/64b5b48009c1b462c3173a1c/polygon/mainnet",
                    chainId |-> ChainId(137)],
     fantom    |-> [url |-> "https://rpc.ftm.tools", chainId |-> ChainId(250)],
     localhost |-> [url |-> "http://127.0.0.1:8545", chainId |-> NoChainId],
     testnet   |-> [url |-> "https://data-seed-prebsc-1-s1.binance.org:8545/",
                    chainId |-> ChainId(97)]]

NetworkNames == DOMAIN Networks

\* hre.config.networks is a plain object: besides its own properties, the
\* networks, it has the members it inherits from Object.prototype, which are
\* functions and have neither a url nor a chainId.
ObjectPrototypeMembers == {"constructor", "toString"}

\* What the operator may pass as --fork: nothing, a configured network's name,
\* a name that is not configured, an RPC URL, or a name that happens to be an
\* inherited member.
ForkArgs ==
    NetworkNames \cup {undefined, "mainnet", "https://rpc.example.org/", "constructor"}

NoNodeArgs == [fork |-> undefined, noReset |-> FALSE, write |-> FALSE]

\* hre.config.networks[name], line 23: the network's configuration, an
\* inherited member, or undefined; `found` is the truthiness line 24 tests.
Lookup(name) ==
    IF name \in DOMAIN networks
    THEN [found |-> TRUE, url |-> networks[name].url, chainId |-> networks[name].chainId]
    ELSE IF name \in ObjectPrototypeMembers
    THEN [found |-> TRUE, url |-> undefined, chainId |-> NoChainId]
    ELSE [found |-> FALSE, url |-> undefined, chainId |-> NoChainId]

\* The chain identifier copied without the test of line 31.
HasChainId_Always(c) == TRUE

\* Truthiness of network.chainId: a number other than 0.
HasChainId(c) == c.kind = "number" /\ c.n # 0

ForkMessage(name, rpc) == "Forking " \o name \o " from RPC: " \o rpc

\* Lines 23-35: the action up to its call of runSuper.
NodeAction ==
    /\ npc = "start"
    /\ LET network == Lookup(nodeArgs.fork)
       IN  IF network.found
           THEN /\ env' = nodeArgs.fork
                /\ nodeArgs' = [fork |-> network.url, noReset |-> TRUE, write |-> FALSE]
                /\ nout' = Append(nout, Log(ForkMessage(nodeArgs.fork, network.url)))
                /\ networks' =
                       IF HasChainId(network.chainId)
                       THEN [networks EXCEPT !.hardhat.chainId = network.chainId,
                                             !.localhost.chainId = network.chainId]
                       ELSE networks
           ELSE UNCHANGED <<env, nodeArgs, nout, networks>>
    /\ npc' = "runSuper"
    /\ UNCHANGED <<superArgs, given>>
    /\ UNCHANGED <<genVars, opsVars, loadVars>>

\* Line 36: await runSuper(taskArgs).
RunSuper ==
    /\ npc = "runSuper"
    /\ superArgs' = nodeArgs
    /\ npc' = "done"
    /\ UNCHANGED <<nodeArgs, env, networks, nout, given>>
    /\ UNCHANGED <<genVars, opsVars, loadVars>>

NodeNext ==
    \/ NodeAction
    \/ RunSuper

(***************************************************************************)
(* Loading the deployer account (lines 170-185) into config (lines 187-230) *)
(***************************************************************************)

\* The values of `deployerAccount`: undefined, or an array of one key.
NoDeployerAccount == [kind |-> undefined, key |-> undefined]
KeyArray(key) == [kind |-> "array", key |-> key]

\* What process.env.DEPLOYER_PK may be: unset, set to the empty string, or set
\* to a key.
EnvValues == {undefined, "", "0xenvkey"}

\* A condition that always takes the file branch.
EnvTruthy_Never(v) == FALSE

\* Line 171: truthiness of process.env.DEPLOYER_PK: set and not empty.
EnvTruthy(v) == v # undefined /\ v # ""

\* Buffer.toString() of a file's content.
ToStr(data) == IF data = <<>> THEN "" ELSE data[1]

\* What fs.readFileSync(path) can do in the current file system: ENOENT when
\* the path does not exist; any call can fail for another reason, written
\* EACCES.
ReadOutcomes(path) ==
    {"EACCES"} \cup
        (IF dirExists /\ files[path].exists THEN {"read"} ELSE {"ENOENT"})

\* Lines 178-179. A TLA+ string cannot hold the grave accents that surround the
\* command in the source; apostrophes stand for them.
NotFoundMessage ==
    "Deployer account not found. Create .config/DEPLOYER_PK or run 'hardhat generate_accounts'."

\* Lines 171-173: the override in the environment, or else the file.
CheckEnv ==
    /\ lpc = "start"
    /\ IF EnvTruthy(envPk)
       THEN /\ deployerAccount' = KeyArray(envPk)
            /\ lpc' = "config"
       ELSE /\ lpc' = "read"
            /\ UNCHANGED deployerAccount
    /\ UNCHANGED <<envPk, lerr, reads, accounts, lout>>
    /\ UNCHANGED <<genVars, opsVars, nodeVars>>

\* Lines 174-176: deployerAccount = [fs.readFileSync(DEPLOYER_PK_FILE).toString()].
ReadFileSync ==
    /\ lpc = "read"
    /\ reads' = Append(reads, DEPLOYER_PK_FILE)
    /\ \E res \in ReadOutcomes(DEPLOYER_PK_FILE) :
           IF res = "read"
           THEN /\ deployerAccount' = KeyArray(ToStr(files[DEPLOYER_PK_FILE].data))
                /\ lpc' = "config"
                /\ UNCHANGED lerr
           ELSE /\ lerr' = SystemError(res)
                /\ lpc' = "catch"
                /\ UNCHANGED deployerAccount
    /\ UNCHANGED <<envPk, accounts, lout>>
    /\ UNCHANGED <<genVars, opsVars, nodeVars>>

\* Lines 177-184: the catch clause.
CatchLoad ==
    /\ lpc = "catch"
    /\ lout' = Append(lout, IF lerr.code = "ENOENT"
                            THEN Log(NotFoundMessage)
                            ELSE ConsoleError(lerr))
    /\ lpc' = "config"
    /\ UNCHANGED <<envPk, deployerAccount, lerr, reads, accounts>>
    /\ UNCHANGED <<genVars, opsVars, nodeVars>>

\* Lines 187-230: the config object, whose live networks take deployerAccount
\* as their accounts.
BuildConfig ==
    /\ lpc = "config"
    /\ accounts' = deployerAccount
    /\ lpc' = "done"
    /\ UNCHANGED <<envPk, deployerAccount, lerr, reads, lout>>
    /\ UNCHANGED <<genVars, opsVars, nodeVars>>

LoadNext ==
    \/ CheckEnv
    \/ ReadFileSync
    \/ CatchLoad
    \/ BuildConfig

\* The configuration is not being loaded.
LoadIdle ==
    /\ envPk = undefined
    /\ deployerAccount = NoDeployerAccount
    /\ lpc = "idle"
    /\ lerr = NoError
    /\ reads = <<>>
    /\ accounts = NoDeployerAccount
    /\ lout = <<>>

\* The node task has not been invoked.
NodeIdle ==
    /\ nodeArgs = NoNodeArgs
    /\ env = undefined
    /\ networks = Networks
    /\ npc = "idle"
    /\ superArgs = NoNodeArgs
    /\ nout = <<>>
    /\ given = [nodeArgs |-> NoNodeArgs, env |-> undefined, networks |-> Networks]

\* No command has been invoked and nothing is deployed.
OpsIdle ==
    /\ OpsInit
    /\ registry = {}

\* generate_accounts has not been invoked.
GenIdle ==
    /\ GenInit
    /\ ~dirExists
    /\ \A f \in PkFiles : ~files[f].exists

\* Concurrent and repeated generate_accounts invocations on one file system.
InitGen ==
    /\ GenInit
    /\ OpsIdle
    /\ NodeIdle
    /\ LoadIdle

SpecGen == InitGen /\ [][GenNext]_vars

\* An operator's session of panic, unpause, harvest and transfer commands.
InitOps ==
    /\ OpsInit
    /\ GenIdle
    /\ NodeIdle
    /\ LoadIdle

SpecOps == InitOps /\ [][OpsNext]_vars

\* One invocation of the node task, with any arguments.
InitNode ==
    /\ nodeArgs \in [fork : ForkArgs, noReset : BOOLEAN, write : BOOLEAN]
    /\ env \in {undefined, "bsc"}
    /\ networks = Networks
    /\ npc = "start"
    /\ superArgs = NoNodeArgs
    /\ nout = <<>>
    /\ given = [nodeArgs |-> nodeArgs, env |-> env, networks |-> networks]
    /\ GenIdle
    /\ OpsIdle
    /\ LoadIdle

SpecNode == InitNode /\ [][NodeNext]_vars

\* A file as generate_accounts leaves it when it has written a key.
GeneratedFile == [exists |-> TRUE, data |-> <<PrivateKey(1)>>]

\* One loading of the configuration, with any environment and any file
\* system that the operator or earlier generate_accounts runs have left: each
\* file absent, put there by the operator, holding a generated key, or created
\* and left empty.
InitLoad ==
    /\ envPk \in EnvValues
    /\ deployerAccount = NoDeployerAccount
    /\ lpc = "start"
    /\ lerr = NoError
    /\ reads = <<>>
    /\ accounts = NoDeployerAccount
    /\ lout = <<>>
    /\ files \in [PkFiles -> {NoFile, OperatorFile, GeneratedFile, EmptyFile}]
    /\ dirExists \in BOOLEAN
    /\ (\E f \in PkFiles : files[f].exists) => dirExists
    /\ nextKey = 1
    /\ gpc = [p \in Runs |-> "mkdir"]
    /\ block = [p \in Runs |-> DEPLOYER_PK_FILE]
    /\ file = [p \in Runs |-> FileUndefined]
    /\ account = [p \in Runs |-> NoAccount]
    /\ gerr = [p \in Runs |-> NoError]
    /\ fds = [p \in Runs |-> {}]
    /\ opened = [p \in Runs |-> [f \in PkFiles |-> ""]]
    /\ closed = [p \in Runs |-> <<>>]
    /\ created = [f \in PkFiles |-> {}]
    /\ wrote = [f \in PkFiles |-> {}]
    /\ gout = [p \in Runs |-> <<>>]
    /\ OpsIdle
    /\ NodeIdle

SpecLoad == InitLoad /\ [][LoadNext]_vars

(***************************************************************************)
(* Properties of generate_accounts, under SpecGen                          *)
(***************************************************************************)

Range(seq) == {seq[i] : i \in DOMAIN seq}

\* The invocation has left the try block of the path.
BlockDone(p, f) ==
    \/ gpc[p] = "done"
    \/ f = DEPLOYER_PK_FILE /\ block[p] = OTHER_PK_FILE

\* The step is one of invocation p.
StepOf(p) == gpc'[p] # gpc[p]

\* C1: a run that finds a role's file present (its exclusive open fails with
\* EEXIST) never changes the file, and once it has left the role's block it
\* has printed "<Role> key exists. Not overwriting" and no account for the
\* role; a file that holds a secret is never changed by any run.
C1_Idempotent ==
    /\ [][\A f \in PkFiles : files[f].data # <<>> => files'[f] = files[f]]_vars
    /\ [][\A p \in Runs, f \in PkFiles :
            (StepOf(p) /\ opened'[p][f] = "EEXIST") => files'[f] = files[f]]_vars
    /\ [](\A p \in Runs, f \in PkFiles :
            (opened[p][f] = "EEXIST" /\ BlockDone(p, f)) =>
                /\ Log(IF f = DEPLOYER_PK_FILE
                       THEN "Deployer key exists. Not overwriting"
                       ELSE "Other key exists. Not overwriting") \in Range(gout[p])
                /\ p \notin created[f] \cup wrote[f])

\* A run has ended that found both files present, the deployer's written by
\* an earlier run and the other's put there by the operator.
C1_Witness ==
    \E p \in Runs, q \in Runs :
        /\ p # q
        /\ gpc[p] = "done" /\ gpc[q] = "done"
        /\ opened[p][DEPLOYER_PK_FILE] = "EEXIST"
        /\ opened[p][OTHER_PK_FILE] = "EEXIST"
        /\ wrote[DEPLOYER_PK_FILE] = {q}
        /\ files[OTHER_PK_FILE] = OperatorFile
        /\ Len(gout[p]) = 2

\* C2: of the invocations racing on one role's file at most one wins the
\* exclusive create, and only the winner writes, the key it generated; one
\* that observed EEXIST has neither created nor written; when the file was not
\* there before and every invocation's open has ended in created or EEXIST,
\* exactly one has won.
C2_AtMostOnceCreation ==
    \A f \in PkFiles :
        /\ Cardinality(created[f]) <= 1
        /\ Cardinality(wrote[f]) <= 1
        /\ wrote[f] \subseteq created[f]
        /\ (created[f] # {} /\ wrote[f] = {}) => files[f].data = <<>>
        /\ wrote[f] # {} =>
               \E n \in 1 .. (nextKey - 1) :
                   files[f].data = <<"0xkey" \o ToString(n)>>
        /\ \A p \in wrote[f] :
               (block[p] = f /\ gpc[p] \in {"log", "finally"}) =>
                   files[f].data = <<account[p].privateKey>>
        /\ \A p \in Runs :
               opened[p][f] = "EEXIST" => p \notin created[f] \cup wrote[f]
        /\ ((\A p \in Runs : opened[p][f] \in {"created", "EEXIST"})
               /\ files[f] # OperatorFile)
             => Cardinality(created[f]) = 1

\* Two invocations interleave on the deployer file: one has created it and
\* not yet written its key when the other observes EEXIST.
C2_Witness ==
    \E p \in Runs, q \in Runs :
        /\ p # q
        /\ created[DEPLOYER_PK_FILE] = {p}
        /\ gpc[p] \in {"createRandom", "write"}
        /\ opened[q][DEPLOYER_PK_FILE] = "EEXIST"

EventsOf(type) == {i \in DOMAIN events : events[i].type = type}

\* The transfer action has ended, normally or by rejecting.
TransferEnded == task = "transfer" /\ pc \in {"done", "rejected"}

\* The step of the transfer action was attempted: its deployment was asked for.
Attempted(s) == Event("get", taskArgs.vault \o "-" \o s) \in Range(events)

\* C3: transfer always attempts the strategy step after initiating the vault
\* step, whether or not the vault step fails: when the action has ended and
\* the vault step was attempted, so was the strategy step.
C3_StrategyAlwaysAttempted ==
    (TransferEnded /\ Attempted("vault")) => Attempted("strat")

\* C4: transfer prints "done" once both steps have been attempted, whatever
\* their outcomes: when the action has ended and both steps were attempted,
\* "done" is in its output.
C4_DoneAfterBothAttempted ==
    (TransferEnded /\ Attempted("vault") /\ Attempted("strat"))
        => Log("done") \in Range(out)

\* C5: no failure of any step of a command escapes the command's action: the
\* action never rejects, and each failure has been turned into a message.
C5_NoFailureEscapes ==
    /\ pc # "rejected"
    /\ thrown = NoError
    /\ \A p \in Runs : gpc[p] # "rejected"

\* The text reports a success of the running strategy task.
IsSuccessText(text) ==
    \E n \in 1 .. (Len(sent) + 1) :
        \E u \in {undefined, "https://bscscan.com/tx/" \o TxHash(n)} :
            \E verb \in {"panic", "unpaused", "harvest"} :
                text = "Successful " \o verb \o " with tx at " \o u

\* The text reports a failure of the running strategy task.
IsFailureText(text) ==
    \E verb \in StrategyTasks, e \in SubmitErrors \cup WaitErrors \cup {NoError} :
        text = "Couldn't " \o verb \o " due to Error: " \o e.message

\* C6: in panic, unpause and harvest a success message is printed only for a
\* transaction that the submission returned and whose confirmation wait
\* completed, in that order, and it carries the transaction's reference; the
\* confirmation wait is entered, and a confirmation recorded, only after the
\* submission of that transaction succeeded.
C6_SuccessOnlyAfterConfirmation ==
    task \in StrategyTasks =>
        /\ \A i \in EventsOf("print") :
               IsSuccessText(events[i].what) =>
                   /\ tx # NoTx
                   /\ events[i].what \in
                          {"Successful " \o verb \o " with tx at https://bscscan.com/tx/"
                               \o tx.hash : verb \in {"panic", "unpaused", "harvest"}}
                   /\ \E j \in EventsOf("submit"), k \in EventsOf("confirm") :
                          /\ j < k /\ k < i
                          /\ events[j].what = tx.hash
                          /\ events[k].what = tx.hash
        /\ \A m \in DOMAIN out : IsSuccessText(out[m].text) =>
               \E i \in EventsOf("print") : events[i].what = out[m].text
        /\ \A k \in EventsOf("confirm") :
               \E j \in EventsOf("submit") : j < k /\ events[j].what = events[k].what
        /\ pc = "wait" =>
               /\ tx # NoTx
               /\ \E j \in DOMAIN sent :
                      /\ sent[j].hash = tx.hash
                      /\ sent[j].method = task
                      /\ sent[j].to = taskArgs.strat
               /\ Event("submit", tx.hash) \in Range(events)

\* A harvest has printed its success.
C6_Witness ==
    /\ task = "harvest"
    /\ pc = "done"
    /\ Len(out) = 1
    /\ IsSuccessText(out[1].text)
    /\ Len(sent) = 2

\* C7: when the strategy call of panic, unpause or harvest is rejected at
\* submission or fails during confirmation, the command prints the failure
\* message with the error in it and no success message, and the action ends
\* normally; an invocation that reached the submission never rejects, and when
\* it has ended it has printed exactly one message, a success or a failure.
C7_FailureReportedNotThrown ==
    task \in StrategyTasks =>
        /\ pc \in {"call", "wait", "catch", "done"} => thrown = NoError
        /\ (pc = "rejected") => ~(\E i \in DOMAIN events : events[i].type = "resolve")
        /\ pc \in {"call", "wait", "catch"} => out = <<>>
        /\ pc = "done" =>
               /\ Len(out) = 1
               /\ IF err # NoError
                  THEN /\ out[1] = Log("Couldn't " \o task \o " due to Error: "
                                            \o err.message)
                       /\ ~IsSuccessText(out[1].text)
                  ELSE IsSuccessText(out[1].text) /\ ~IsFailureText(out[1].text)
        /\ (pc = "catch") => err \in SubmitErrors \cup WaitErrors

\* A panic whose transaction was accepted and then failed during the
\* confirmation wait has ended, with the failure printed.
C7_Witness ==
    /\ task = "panic"
    /\ pc = "done"
    /\ err \in WaitErrors
    /\ tx # NoTx
    /\ Len(out) = 1
    /\ IsFailureText(out[1].text)

\* C7, the other case: an unpause rejected at submission has ended.
C7_WitnessRejected ==
    /\ task = "unpause"
    /\ pc = "done"
    /\ err \in SubmitErrors
    /\ tx = NoTx

\* The positions of the events of a type, in order.
RECURSIVE Ordered(_)
Ordered(set) ==
    IF set = {} THEN <<>>
    ELSE LET least == CHOOSE i \in set : \A j \in set : i <= j
         IN  <<least>> \o Ordered(set \ {least})

\* The owners and the signer transfer uses on the network, as configured.
ConfiguredVaultOwner ==
    IF taskArgs.network = "bsc"
    THEN "addressBook.bsc.platforms.beefyfinance.vaultOwner" ELSE "0xaccount0"
ConfiguredStratOwner ==
    IF taskArgs.network = "bsc"
    THEN "addressBook.bsc.platforms.beefyfinance.strategyOwner" ELSE "0xaccount0"

\* C8, as amended: in a transfer run for vault name V the vault step resolves
\* "V-vault" and submits transferOwnership(vaultOwner), the strategy step
\* resolves "V-strat" and submits transferOwnership(stratOwner), both signed by
\* the deployer; each transaction's reference is printed right after its
\* submission succeeded and before its confirmation completes; nothing is
\* printed when a confirmation completes: what follows it is the next step's
\* resolution or the final "done"; and both references are printed before
\* "done".
C8_TransferReports ==
    task = "transfer" =>
        LET gets == Ordered(EventsOf("get"))
            submits == Ordered(EventsOf("submit"))
            suffix == <<"-vault", "-strat">>
            owner == <<ConfiguredVaultOwner, ConfiguredStratOwner>>
        IN  /\ Len(gets) <= 2
            /\ Len(submits) <= Len(gets)
            /\ \A n \in DOMAIN gets :
                   events[gets[n]].what = taskArgs.vault \o suffix[n]
            /\ \A n \in DOMAIN submits :
                   LET i == submits[n]
                       h == events[i].what
                   IN  /\ gets[n] < i
                       /\ \E j \in DOMAIN sent :
                              /\ sent[j].hash = h
                              /\ sent[j].to = "0x" \o taskArgs.vault \o suffix[n]
                              /\ sent[j].method = "transferOwnership"
                              /\ sent[j].arg = owner[n]
                              /\ sent[j].from = "0xaccount0"
                       /\ i + 1 \in DOMAIN events
                       /\ events[i + 1] = Event("print", " (tx: " \o h \o ")\n")
                       /\ \A k \in EventsOf("confirm") :
                              events[k].what = h => k > i + 1
            /\ \A k \in EventsOf("confirm") :
                   /\ \E i \in EventsOf("submit") : events[i].what = events[k].what
                   /\ \/ k = Len(events)
                      \/ events[k + 1].type = "get"
                      \/ events[k + 1] = Event("print", "done")
            /\ Log("done") \in Range(out) =>
                   /\ Len(submits) = 2
                   /\ Len(out) = 5
                   /\ out[2].text = " (tx: " \o events[submits[1]].what \o ")\n"
                   /\ out[4].text = " (tx: " \o events[submits[2]].what \o ")\n"
                   /\ out[5] = Log("done")

\* C8 as stated: the above, and the completion of each step's confirmation is
\* reported: what follows a confirmation is a message.
C8_ConfirmationReported ==
    /\ C8_TransferReports
    /\ task = "transfer" =>
           \A k \in EventsOf("confirm") :
               k < Len(events) => events[k + 1].type = "print"

\* A transfer on bsc, where the two owners differ, has printed "done".
C8_Witness ==
    /\ task = "transfer"
    /\ taskArgs.network = "bsc"
    /\ taskArgs.vault = "foo"
    /\ pc = "done"
    /\ Len(sent) = 2

(***************************************************************************)
(* Properties of node, under SpecNode                                      *)
(***************************************************************************)

ConfiguredNetworks ==
    {"hardhat", "bsc", "heco", "avax", "polygon", "fantom", "localhost", "testnet"}

\* The invocation is as it was given: arguments, environment and chain
\* identifiers, and the arguments the underlying task gets.
Untouched ==
    /\ nodeArgs = given.nodeArgs
    /\ env = given.env
    /\ networks = given.networks
    /\ nout = <<>>
    /\ npc = "done" => superArgs = given.nodeArgs

\* C10: when the fork argument does not name a configured network, the task
\* arguments, the hardhat and localhost chain identifiers and the fork
\* environment variable are left as given, and the underlying task gets the
\* arguments as given.
C10_ForkConservative ==
    given.nodeArgs.fork \notin ConfiguredNetworks => Untouched

\* The same for the fork arguments that name no member of the networks
\* object at all, own or inherited.
C10_UnknownNameUntouched ==
    given.nodeArgs.fork \notin ConfiguredNetworks \cup ObjectPrototypeMembers
        => Untouched

\* C11: when the fork argument names a configured network, once the action
\* has reached runSuper the fork argument is exactly that network's url,
\* noReset is true and write is false, and the chain identifiers of the local
\* networks (hardhat and localhost) are the source network's when it has one
\* and are as given when it has none; fork "bsc" gives chain identifier 56.
C11_ForkPropagates ==
    (given.nodeArgs.fork \in ConfiguredNetworks /\ npc \in {"runSuper", "done"}) =>
        LET source == given.networks[given.nodeArgs.fork]
        IN  /\ nodeArgs.fork = source.url
            /\ nodeArgs.noReset = TRUE
            /\ nodeArgs.write = FALSE
            /\ npc = "done" => superArgs = [fork |-> source.url, noReset |-> TRUE,
                                            write |-> FALSE]
            /\ IF source.chainId.kind = "number"
               THEN /\ networks.hardhat.chainId = source.chainId
                    /\ networks.localhost.chainId = source.chainId
               ELSE /\ networks.hardhat.chainId = given.networks.hardhat.chainId
                    /\ networks.localhost.chainId = given.networks.localhost.chainId
            /\ \A n \in ConfiguredNetworks \ {"hardhat", "localhost"} :
                   networks[n] = given.networks[n]
            /\ given.nodeArgs.fork = "bsc" =>
                   /\ networks.hardhat.chainId = [kind |-> "number", n |-> 56]
                   /\ networks.localhost.chainId = [kind |-> "number", n |-> 56]
                   /\ nodeArgs.fork = "https://bsc-dataseed.binance.org/"

\* A node run given fork "bsc", with write on and noReset off, has delegated
\* to the underlying task.
C11_Witness ==
    /\ npc = "done"
    /\ given.nodeArgs = [fork |-> "bsc", noReset |-> FALSE, write |-> TRUE]
    /\ networks.localhost.chainId.n = 56
    /\ superArgs.write = FALSE

\* C11, the other case: a run given fork "localhost", which has no chain
\* identifier, has delegated with the chain identifiers as given.
C11_WitnessNoChainId ==
    /\ npc = "done"
    /\ given.nodeArgs.fork = "localhost"
    /\ networks = given.networks
    /\ superArgs.fork = "http://127.0.0.1:8545"

(***************************************************************************)
(* Properties of the loading of the deployer account, under SpecLoad       *)
(***************************************************************************)

\* The loading is past lines 170-185.
Loaded == lpc \in {"config", "done"}

\* C12: when DEPLOYER_PK is set in the environment (to a value, not the empty
\* string) the deployer account is that value and the file is never read;
\* otherwise the file is read and, when the read succeeds, its content is the
\* deployer account; when there is neither an override nor a file the loading
\* goes on to build the configuration, without a deployer account, after
\* printing the message that names the missing file and the two remedies.
C12_DeployerAccountLoading ==
    /\ lpc \in {"start", "read", "catch", "config", "done"}
    /\ (Loaded /\ envPk \notin {undefined, ""}) =>
           /\ deployerAccount = [kind |-> "array", key |-> envPk]
           /\ reads = <<>>
           /\ lout = <<>>
    /\ (Loaded /\ envPk \in {undefined, ""}) =>
           /\ reads = <<".config/DEPLOYER_PK">>
           /\ IF ~files[".config/DEPLOYER_PK"].exists
              THEN /\ deployerAccount.kind = "undefined"
                   /\ Len(lout) = 1
                   /\ lout[1].text \in
                          {"Deployer account not found. Create .config/DEPLOYER_PK or run 'hardhat generate_accounts'.",
                           "EACCES: syscall failed"}
              ELSE IF lout = <<>>
              THEN /\ deployerAccount.kind = "array"
                   /\ files[".config/DEPLOYER_PK"].data \in
                          {<<>>, <<deployerAccount.key>>}
                   /\ files[".config/DEPLOYER_PK"].data = <<>> =>
                          deployerAccount.key = ""
              ELSE /\ deployerAccount.kind = "undefined"
                   /\ lout = <<[stream |-> "error", text |-> "EACCES: syscall failed"]>>
    /\ (lpc = "catch" /\ lerr.code = "ENOENT") => ~files[".config/DEPLOYER_PK"].exists
    /\ (Loaded /\ lerr.code = "ENOENT") =>
           lout = <<[stream |-> "log", text |->
              "Deployer account not found. Create .config/DEPLOYER_PK or run 'hardhat generate_accounts'."]>>
    /\ lpc = "done" => accounts = deployerAccount

\* The configuration has been built with neither an override nor a file, and
\* the message has been printed.
C12_Witness ==
    /\ lpc = "done"
    /\ envPk = undefined
    /\ ~files[DEPLOYER_PK_FILE].exists
    /\ lout = <<Log(NotFoundMessage)>>
    /\ accounts = NoDeployerAccount

\* C12, the override: the configuration has been built from the override
\* while the file holds another key.
C12_WitnessOverride ==
    /\ lpc = "done"
    /\ envPk = "0xenvkey"
    /\ files[DEPLOYER_PK_FILE] = OperatorFile
    /\ accounts = KeyArray("0xenvkey")

\* C12, the file: the configuration has been built from the file.
C12_WitnessFile ==
    /\ lpc = "done"
    /\ envPk = undefined
    /\ accounts = KeyArray("operator-key")

(***************************************************************************)
(* Further properties of generate_accounts, under SpecGen                  *)
(***************************************************************************)

\* Run p has ended, found neither file, and none of its calls failed.
CleanFreshRun(p) ==
    /\ gpc[p] = "done"
    /\ \A f \in PkFiles : opened[p][f] = "created"
    /\ \A i \in 1 .. Len(gout[p]) : gout[p][i].stream = "log"

\* C13: a run that finds neither credential file and meets no I/O failure
\* has created both files, each holds the private key of an account generated
\* by the run, the two accounts are distinct, and the run has printed the two
\* addresses, the deployer's first.
C13_FreshRunCreatesBoth ==
    \A p \in Runs :
        CleanFreshRun(p) =>
            /\ \A f \in PkFiles : created[f] = {p} /\ files[f].exists
            /\ \E n1, n2 \in 1 .. (2 * NumRuns) :
                   /\ n1 # n2
                   /\ files[".config/DEPLOYER_PK"].data = <<"0xkey" \o ToString(n1)>>
                   /\ files[".config/OTHER_PK"].data = <<"0xkey" \o ToString(n2)>>
                   /\ gout[p] =
                          << [stream |-> "log",
                              text |-> "Deployer account: " \o "0xaddr" \o ToString(n1)],
                             [stream |-> "log",
                              text |-> "Other account  : " \o "0xaddr" \o ToString(n2)] >>

\* A run has ended after creating and writing both files.
C13_Witness ==
    \E p \in Runs :
        /\ CleanFreshRun(p)
        /\ Len(gout[p]) = 2
        /\ files[DEPLOYER_PK_FILE].data = <<PrivateKey(1)>>
        /\ files[OTHER_PK_FILE].data = <<PrivateKey(2)>>

\* C14: once the run that created a credential file has left the role's
\* block, the file holds exactly the private key of one generated account,
\* whatever happened in the block after the exclusive create; and an address
\* printed for a role is the address of the key the role's file holds.
C14_FilesHoldOnlyGeneratedKey ==
    /\ \A f \in PkFiles :
           (files[f].exists /\ \E p \in created[f] : BlockDone(p, f)) =>
               \E n \in 1 .. (2 * NumRuns) : files[f].data = <<"0xkey" \o ToString(n)>>
    /\ \A p \in Runs, f \in PkFiles, n \in 1 .. (2 * NumRuns) :
           [stream |-> "log",
            text |-> (IF f = ".config/DEPLOYER_PK"
                      THEN "Deployer account: " ELSE "Other account  : ")
                     \o "0xaddr" \o ToString(n)] \in Range(gout[p])
               => files[f].data = <<"0xkey" \o ToString(n)>>

\* C17: a descriptor is closed only while it is open and belongs to the
\* block that is closing it, so no descriptor is closed twice and the second
\* block never closes the first block's; when a block is left, the file it
\* created is no longer open, whichever of the block's calls failed; a run
\* has called closeSync once per successful open, and holds no descriptor
\* when it ends.
C17_HandlesClosedOnce ==
    /\ [][\A p \in Runs :
            closed'[p] # closed[p] =>
                /\ Len(closed'[p]) = Len(closed[p]) + 1
                /\ [fd |-> closed'[p][Len(closed'[p])], path |-> block[p]] \in fds[p]
                /\ fds'[p] = fds[p] \ {[fd |-> closed'[p][Len(closed'[p])],
                                       path |-> block[p]]}]_vars
    /\ [](\A p \in Runs :
            /\ \A f \in PkFiles :
                   BlockDone(p, f) => ~ \E h \in fds[p] : h.path = f
            /\ Len(closed[p]) =
                   Cardinality({f \in PkFiles :
                                   opened[p][f] = "created" /\ BlockDone(p, f)})
            /\ gpc[p] = "done" => (fds[p] = {} /\ file[p].kind # "fd"))

\* A run has ended whose deployer file was created and closed after the write
\* failed, and whose second open failed: closeSync was called once.
C17_Witness ==
    \E p \in Runs :
        /\ gpc[p] = "done"
        /\ opened[p][DEPLOYER_PK_FILE] = "created"
        /\ p \notin wrote[DEPLOYER_PK_FILE]
        /\ opened[p][OTHER_PK_FILE] = "EACCES"
        /\ closed[p] = <<FirstFd>>
        /\ fds[p] = {}

\* C17, both roles: a run has ended that created and closed both files.
C17_WitnessBoth ==
    \E p \in Runs :
        /\ gpc[p] = "done"
        /\ \A f \in PkFiles : opened[p][f] = "created"
        /\ closed[p] = <<FirstFd, FirstFd>>

C18_WitnessWrite ==
    \E p \in Runs :
        /\ gpc[p] = "done"
        /\ ConsoleError(SystemError("ENOSPC")) \in Range(gout[p])
        /\ p \in created[DEPLOYER_PK_FILE] \ wrote[DEPLOYER_PK_FILE]
        /\ opened[p][OTHER_PK_FILE] = "created"

(***************************************************************************)
(* Further properties of the commands, under SpecOps                       *)
(***************************************************************************)

\* The contract the transaction with the hash was sent to.
TxTo(hash) == (CHOOSE t \in Range(sent) : t.hash = hash).to

\* The submissions of the current transfer to the vault's contract of step s.
SubmitsTo(s) ==
    {i \in EventsOf("submit") :
        TxTo(events[i].what) = "0x" \o taskArgs.vault \o "-" \o s}

\* C15: in transfer, the strategy's transferOwnership is submitted only after
\* the vault's transaction was submitted and its wait has returned; while the
\* vault's wait has not returned, however long that lasts, no strategy
\* transaction has been submitted and "done" has not been printed; and no
\* step taken from there other than the return of the wait submits or prints.
C15_StrategyAfterVaultConfirmed ==
    /\ [](task = "transfer" =>
            /\ \A i \in SubmitsTo("strat") :
                   \E k, j \in 1 .. (i - 1) :
                       /\ k < j
                       /\ k \in SubmitsTo("vault")
                       /\ events[j] = [type |-> "confirm", what |-> events[k].what]
            /\ (pc = "wait_transfer" /\ step = "vault") =>
                   /\ SubmitsTo("strat") = {}
                   /\ [type |-> "print", what |-> "done"] \notin Range(events)
                   /\ [stream |-> "log", text |-> "done"] \notin Range(out))
    /\ [][(task = "transfer" /\ pc = "wait_transfer" /\ step = "vault"
           /\ pc' = "wait_transfer" /\ step' = "vault") =>
              (sent' = sent /\ out' = out)]_vars

\* A transfer has ended with both transactions confirmed in order.
C15_Witness ==
    /\ task = "transfer"
    /\ pc = "done"
    /\ Cardinality(SubmitsTo("vault")) = 1
    /\ Cardinality(SubmitsTo("strat")) = 1
    /\ Log("done") \in Range(out)

\* C15, the stall: the vault's transaction is submitted and its wait has not
\* returned.
C15_WitnessWaiting ==
    /\ task = "transfer"
    /\ pc = "wait_transfer"
    /\ step = "vault"
    /\ Cardinality(SubmitsTo("vault")) = 1

\* C16: an invocation of panic, unpause or harvest has submitted at most one
\* transaction, and a transfer at most one to the vault and one to the
\* strategy; a step adds at most one transaction to the chain, and no step
\* taken from a catch clause, a rejection or the end of a command adds one.
C16_AtMostOneSubmission ==
    /\ [](/\ task \in {"panic", "unpause", "harvest"} =>
                Cardinality(EventsOf("submit")) <= 1
          /\ task = "transfer" =>
                /\ Cardinality(SubmitsTo("vault")) <= 1
                /\ Cardinality(SubmitsTo("strat")) <= 1
                /\ EventsOf("submit") = SubmitsTo("vault") \cup SubmitsTo("strat"))
    /\ [][/\ Len(sent') \in {Len(sent), Len(sent) + 1}
          /\ Len(sent') = Len(sent) + 1 =>
                /\ pc \in {"call", "transferOwnership"}
                /\ pc' \in {"wait", "wait_transfer"}
                /\ Cardinality(EventsOf("submit")') = Cardinality(EventsOf("submit")) + 1
          /\ pc \in {"catch", "rejected", "done"} => sent' = sent]_vars

\* A harvest whose transaction was submitted and whose confirmation failed has
\* ended with the failure printed and one transaction on the chain.
C16_Witness ==
    /\ task = "harvest"
    /\ pc = "done"
    /\ Cardinality(EventsOf("submit")) = 1
    /\ \E e \in WaitErrors : Log(FailureMessage("harvest", e)) \in Range(out)
    /\ Len(sent) = 1

\* C16, transfer: a transfer has been rejected at the strategy's submission
\* after the vault's transaction.
C16_WitnessTransfer ==
    /\ task = "transfer"
    /\ pc = "rejected"
    /\ step = "strat"
    /\ thrown \in SubmitErrors
    /\ Cardinality(EventsOf("submit")) = 1

\* C19: when a transfer has failed in its strategy step after the vault's
\* transfer was confirmed, it has submitted nothing but the vault's
\* transaction, and the operator has been told of the failure: the output
\* holds more than the progress notes written to stdout.
C19_PartialCompletionReported ==
    (task = "transfer" /\ pc = "rejected" /\ step = "strat") =>
        /\ EventsOf("submit") \ SubmitsTo("strat") = SubmitsTo("vault")
        /\ Cardinality(SubmitsTo("vault")) = 1
        /\ \E m \in Range(out) : m.stream # "stdout"

====
